---------------------------- MODULE Spec2Model ----------------------------
(***************************************************************************)
(* A model of the block / proof-of-work layer of go-blockchain             *)
(* (foundation/blockchain/database/block.go): the block header, the        *)
(* header-only hash, the difficulty check isHashSolved, the POW search     *)
(* loop with its cancellation polls, and the BlockData conversions; of     *)
(* database.New and state.New; and of the ProposeBlock handler of the node *)
(* service.                                                                *)
(*                                                                         *)
(* Five specifications share the module:                                   *)
(*   Spec        a caller that repeatedly calls POW on the last block it   *)
(*               mined, with a context that may be cancelled at any time;  *)
(*   SpecSolved  isHashSolved applied to bounded inputs;                   *)
(*   SpecBlock   Hash, NewBlockData and ToBlock applied to bounded blocks; *)
(*   SpecNew     database.New and state.New on bounded genesis balances    *)
(*               and stored chains;                                        *)
(*   SpecNode    a node that mines with POW while ProposeBlock serves the  *)
(*               blocks of its peers.                                      *)
(***************************************************************************)
EXTENDS Integers, Sequences, FiniteSets, TLC

VARIABLES
    chain,      \* Spec: the blocks mined so far, genesis first
    pc,         \* Spec: the position of the POW call
    ctx,        \* Spec: the caller's context: "active" or "canceled"
    args,       \* Spec: the POWArgs of the call in progress
    block,      \* Spec: POW's local variable block (performPOW's receiver)
    n0,         \* Spec: the nonce drawn by rand.Int
    attempts,   \* Spec: performPOW's local variable attempts
    obs,        \* Spec: where the loop observed the cancellation
    ret,        \* Spec: what POW returned: [block, err]
    fpc,        \* SpecSolved, SpecBlock, SpecNew: the position of the call
    fin,        \* SpecSolved, SpecBlock, SpecNew: the inputs of the call
    fout,       \* SpecSolved, SpecBlock, SpecNew: its locals and outputs
    node        \* SpecNode: the node's ledger, mempool and last answers

vars ==
    <<chain, pc, ctx, args, block, n0, attempts, obs, ret, fpc, fin, fout, node>>

powVars == <<chain, pc, ctx, args, block, n0, attempts, obs, ret, node>>

funVars == <<fpc, fin, fout>>

Nil == "nil"

-----------------------------------------------------------------------------
(* Bounds of the model.                                                    *)

\* uint64 values (header nonce, attempts) wrap modulo UintMod in the model.
UintMod == 8

\* Block transactions are the values 1..MaxTx.
MaxTx == 2

\* A block carries at most MaxTrans transactions.
MaxTrans == 2

\* The caller mines at most MaxChain blocks on top of genesis.
MaxChain == 2

\* time.Now() returns a value of 1..MaxTime.
MaxTime == 2

-----------------------------------------------------------------------------
(* Program constants.                                                      *)

\* len(hash) != 66
HashLen == 66

\* len("0x00000000000000000"), the constant match of isHashSolved
MatchLen == 19

\* difficulty is a uint16
Uint16Mod == 65536

-----------------------------------------------------------------------------
(* Hash strings: sequences of one-character strings.                       *)

HexChars ==
    <<"0", "1", "2", "3", "4", "5", "6", "7",
      "8", "9", "a", "b", "c", "d", "e", "f">>

Zeros(n) == [i \in 1..n |-> "0"]

\* signature.ZeroHash
ZeroHash == <<"0", "x">> \o Zeros(HashLen - 2)

\* const match = "0x00000000000000000"
match == <<"0", "x">> \o Zeros(MatchLen - 2)

\* s[:n] of Go, for 0 <= n <= len(s)
Prefix(s, n) == SubSeq(s, 1, n)

\* The documented difficulties are 1..MaxDifficulty.
MaxDifficulty == HashLen - 3

\* A 66-character string that starts with "0x".
IsHexHash(h) == Len(h) = HashLen /\ h[1] = "0" /\ h[2] = "x"

\* The number of leading "0" characters of s from position i on.
RECURSIVE ZerosFrom(_, _)
ZerosFrom(s, i) ==
    IF i > Len(s) \/ s[i] # "0" THEN 0 ELSE 1 + ZerosFrom(s, i + 1)

\* The number of leading zero hex digits after the two-character prefix.
LeadingZeros(hash) == ZerosFrom(hash, 3)

-----------------------------------------------------------------------------
(* keccak-256 stand-in.  The digest of a value is a function of the        *)
(* value's code, an integer of 0..HashMod-1; the hex string of a code has  *)
(* a number of leading zeros taken from LZTable: most digests have few,    *)
(* one in Len(LZTable) has more than the template of isHashSolved holds.   *)

HashMod == 8 * UintMod

LZTable == <<0, 1, 0, 2, 20, 0, 3, 1>>

LZOf(code) == LZTable[(code % Len(LZTable)) + 1]

HexOf(code) ==
    <<"0", "x">> \o
    [i \in 1..(HashLen - 2) |->
        IF i <= LZOf(code) THEN "0"
        ELSE IF i = LZOf(code) + 1 THEN HexChars[2 + (code % 15)]
        ELSE HexChars[1 + ((code + i) % 16)]]

\* The value of a character: of a hex digit its value, of any other 16.
DigitOf ==
    [ch \in {HexChars[k] : k \in 1..16} \cup {"x"} |->
        IF ch = "x" THEN 16 ELSE (CHOOSE k \in 1..16 : HexChars[k] = ch) - 1]

\* The code of a string: a weighted sum of its characters.
RECURSIVE StrCodeFrom(_, _)
StrCodeFrom(s, i) ==
    IF i > Len(s) THEN 0
    ELSE (DigitOf[s[i]] * ((i % 7) + 1) + StrCodeFrom(s, i + 1)) % HashMod

StrCode(s) == StrCodeFrom(s, 1)


-----------------------------------------------------------------------------
(* Values of the block layer.                                              *)

\* AccountID values; "" is the zero value.
AccountIDs == <<"0xAcct1", "0xAcct2">>

\* State root strings handed to POW; "" is the zero value.
StateRoots == <<"root1", "root2">>

\* The code of a Go string field of the header, for hashing.
NameCode(str) ==
    IF \E k \in 1..Len(AccountIDs) : AccountIDs[k] = str
    THEN CHOOSE k \in 1..Len(AccountIDs) : AccountIDs[k] = str
    ELSE IF \E k \in 1..Len(StateRoots) : StateRoots[k] = str
    THEN Len(AccountIDs) + (CHOOSE k \in 1..Len(StateRoots) : StateRoots[k] = str)
    ELSE 0

Range(f) == {f[i] : i \in DOMAIN f}

\* []BlockTx: sequences of at most n values of 1..MaxTx.
TransUpTo(n) == UNION {[1..k -> 1..MaxTx] : k \in 0..n}

-----------------------------------------------------------------------------
(* merkle.Tree (foundation/blockchain/merkle): a binary keccak merkle tree *)
(* over the ordered leaves; an odd level duplicates its last node; the     *)
(* root of the empty tree is the zero hash.                                *)

LeafCode(tx) == (tx * 5 + 3) % HashMod

NodeCode(left, right) == (left * 3 + right * 7 + 1) % HashMod

\* One level up: the hashes of the pairs, the last node paired with itself
\* when the level is odd.
LevelUp(level) ==
    [i \in 1..((Len(level) + 1) \div 2) |->
        NodeCode(level[2 * i - 1],
                 IF 2 * i <= Len(level) THEN level[2 * i] ELSE level[2 * i - 1])]

RECURSIVE RootCode(_)
RootCode(level) == IF Len(level) = 1 THEN level[1] ELSE RootCode(LevelUp(level))

\* A tree constructor that rejects an empty list of values: a mutant.
NewTreeRejectsEmpty(values) ==
    IF values = <<>> THEN [tree |-> Nil, err |-> "merkle: no values"]
    ELSE [tree |-> [Leafs |-> values], err |-> Nil]

\* merkle.NewTree(values): (tree, err)
NewTree(values) == [tree |-> [Leafs |-> values], err |-> Nil]

\* tree.Values()
Values(tree) == tree.Leafs

\* tree.RootHex()
RootHex(tree) ==
    IF tree.Leafs = <<>> THEN ZeroHash
    ELSE HexOf(RootCode([i \in 1..Len(tree.Leafs) |-> LeafCode(tree.Leafs[i])]))

-----------------------------------------------------------------------------
(* BlockHeader, Block, BlockData, Hash, NewBlockData, ToBlock              *)
(* (block.go:16-43, 151-195).                                              *)

\* BlockHeader{}: the zero value
ZeroHeader ==
    [Number |-> 0, PrevBlockHash |-> <<>>, TimeStamp |-> 0, BeneficiaryID |-> "",
     Difficulty |-> 0, MiningReward |-> 0, StateRoot |-> "", TransRoot |-> <<>>,
     Nonce |-> 0]

\* Block{}: the zero value, with a nil MerkleTree
ZeroBlock == [Header |-> ZeroHeader, MerkleTree |-> Nil]

\* signature.Hash(header): the digest of the header's fields in their order.
HeaderCode(h) ==
    (h.Number * 7 + StrCode(h.PrevBlockHash) * 3 + h.TimeStamp * 5
        + NameCode(h.BeneficiaryID) * 11 + h.Difficulty * 13 + h.MiningReward * 23
        + NameCode(h.StateRoot) * 17 + StrCode(h.TransRoot) * 19 + h.Nonce) % HashMod

SigHash(h) == HexOf(HeaderCode(h))

\* A hash of the whole block, transactions included: a mutant.
HashOfWholeBlock(b) ==
    IF b.Header.Number = 0 THEN ZeroHash
    ELSE HexOf((HeaderCode(b.Header) + StrCode(RootHex(b.MerkleTree)) + 1) % HashMod)

\* A hash without the genesis case: a mutant.
HashNoGenesisCase(b) == SigHash(b.Header)

\* func (b Block) Hash() string
Hash(b) == IF b.Header.Number = 0 THEN ZeroHash ELSE SigHash(b.Header)

\* func NewBlockData(block Block) BlockData
NewBlockData(b) ==
    [Hash |-> Hash(b), Header |-> b.Header, Trans |-> Values(b.MerkleTree)]

\* A conversion that rebuilds the tree without the last transaction: a mutant.
ToBlockDropLast(blockData) ==
    LET t == NewTree(SubSeq(blockData.Trans, 1, Len(blockData.Trans) - 1)) IN
    [block |-> [Header |-> blockData.Header, MerkleTree |-> t.tree], err |-> Nil]

\* func ToBlock(blockData BlockData) (Block, error)
ToBlock(blockData) ==
    LET t == NewTree(blockData.Trans) IN
    IF t.err # Nil
    THEN [block |-> ZeroBlock, err |-> t.err]
    ELSE [block |-> [Header |-> blockData.Header, MerkleTree |-> t.tree],
          err |-> Nil]

-----------------------------------------------------------------------------
(* isHashSolved (block.go:199-208).  The result is "true", "false", or     *)
(* "panic" when a slice expression is out of range.                        *)

\* The function without its length check: a mutant.
isHashSolvedNoLen(difficulty, hash) ==
    LET d == (difficulty + 2) % Uint16Mod IN
    IF d > Len(hash) \/ d > Len(match) THEN "panic"
    ELSE IF Prefix(hash, d) = Prefix(match, d) THEN "true" ELSE "false"

\* The function without "difficulty += 2": a mutant.
isHashSolvedNoPrefix(difficulty, hash) ==
    LET d == difficulty % Uint16Mod IN
    IF Len(hash) # HashLen THEN "false"
    ELSE IF d > Len(hash) \/ d > Len(match) THEN "panic"
    ELSE IF Prefix(hash, d) = Prefix(match, d) THEN "true" ELSE "false"

isHashSolved(difficulty, hash) ==
    LET d == (difficulty + 2) % Uint16Mod IN
    IF Len(hash) # HashLen THEN "false"
    ELSE IF d > Len(hash) \/ d > Len(match) THEN "panic"
    ELSE IF Prefix(hash, d) = Prefix(match, d) THEN "true" ELSE "false"

-----------------------------------------------------------------------------
(* POW and performPOW (block.go:45-149).                                   *)

\* math.MaxInt64 at the model's width: rand.Int draws from [0, MaxInt64).
MaxInt64 == (UintMod \div 2) - 1

\* ctx.Err()
CtxErr(c) == IF c = "active" THEN Nil ELSE "context canceled"

\* A previous hash that is always the zero hash: a mutant.
PrevBlockHashAlwaysZero(prev) == ZeroHash

\* prevBlockHash of POW (block.go:60-63)
PrevBlockHashOf(prev) ==
    IF prev.Header.Number > 0 THEN Hash(prev) ELSE ZeroHash

\* A block whose header commits to the previous block's transactions: a mutant.
NewBlockStaleRoot(a, tree, now) ==
    [Header |->
        [Number |-> (a.PrevBlock.Header.Number + 1) % UintMod,
         PrevBlockHash |-> PrevBlockHashOf(a.PrevBlock),
         TimeStamp |-> now,
         BeneficiaryID |-> a.BeneficiaryID,
         Difficulty |-> a.Difficulty,
         MiningReward |-> a.MiningReward,
         StateRoot |-> a.StateRoot,
         TransRoot |-> IF a.PrevBlock.MerkleTree = Nil THEN ZeroHash
                       ELSE RootHex(a.PrevBlock.MerkleTree),
         Nonce |-> 0],
     MerkleTree |-> tree]

\* The block POW constructs (block.go:73-86)
NewBlock(a, tree, now) ==
    [Header |->
        [Number |-> (a.PrevBlock.Header.Number + 1) % UintMod,
         PrevBlockHash |-> PrevBlockHashOf(a.PrevBlock),
         TimeStamp |-> now,
         BeneficiaryID |-> a.BeneficiaryID,
         Difficulty |-> a.Difficulty,
         MiningReward |-> a.MiningReward,
         StateRoot |-> a.StateRoot,
         TransRoot |-> RootHex(tree),
         Nonce |-> 0],
     MerkleTree |-> tree]

\* A return that hands out the block under construction with the error: a
\* mutant.
POWReturnPartial(b, err) == [block |-> b, err |-> err]

\* What POW returns when performPOW returned err (block.go:89-93)
POWReturn(b, err) ==
    IF err # Nil THEN [block |-> ZeroBlock, err |-> err]
    ELSE [block |-> b, err |-> Nil]

\* The difficulties the caller configures: a low one, the largest the
\* template of isHashSolved covers, and the next one.
MineDiffs == {1, MatchLen - 2, MatchLen - 1}

\* The configurations the caller mines with: each names a beneficiary, a
\* state root, a transaction list (none, or MaxTrans of them) and the time
\* at which POW reads the clock.
MineConfigs ==
    {[BeneficiaryID |-> AccountIDs[1], StateRoot |-> StateRoots[1], Trans |-> <<>>,
      Now |-> 1],
     [BeneficiaryID |-> AccountIDs[2], StateRoot |-> StateRoots[2],
      Trans |-> [i \in 1..MaxTrans |-> ((i - 1) % MaxTx) + 1],
      Now |-> MaxTime]}

\* The POWArgs of a call with configuration m and difficulty d on the last
\* block of chain c.
MineArgs(c, m, d) ==
    [BeneficiaryID |-> m.BeneficiaryID,
     Difficulty |-> d,
     MiningReward |-> 700,
     PrevBlock |-> c[Len(c)],
     StateRoot |-> m.StateRoot,
     Trans |-> m.Trans]

FunIdle == fpc = "off" /\ fin = Nil /\ fout = Nil

Init ==
    /\ chain = <<ZeroBlock>>
    /\ pc = "idle"
    /\ ctx = "active"
    /\ args = Nil
    /\ block = Nil
    /\ n0 = 0
    /\ attempts = 0
    /\ obs = "none"
    /\ ret = Nil
    /\ node = Nil
    /\ FunIdle

\* POW up to the call of performPOW (block.go:58-86), called with arguments a
\* when the clock reads now.
CallPOWWith(a, now) ==
    /\ LET t == NewTree(a.Trans) IN
        /\ args' = a
        /\ IF t.err # Nil
           THEN /\ ret' = [block |-> ZeroBlock, err |-> t.err]
                /\ pc' = "returned"
                /\ block' = Nil
           ELSE /\ block' = NewBlock(a, t.tree, now)
                /\ pc' = "rand"
                /\ ret' = Nil
    /\ n0' = 0
    /\ attempts' = 0
    /\ obs' = "none"
    /\ UNCHANGED <<chain, ctx, funVars, node>>

\* A call of POW on the last block mined.
CallPOW ==
    /\ pc = "idle"
    /\ Len(chain) <= MaxChain
    /\ \E m \in MineConfigs : \E d \in MineDiffs :
        CallPOWWith(MineArgs(chain, m, d), m.Now)

\* rand.Int succeeds (block.go:109-115)
DrawNonce ==
    /\ pc = "rand"
    /\ \E n \in 0..(MaxInt64 - 1) :
        /\ n0' = n
        /\ block' = [block EXCEPT !.Header.Nonce = n]
    /\ pc' = "loop"
    /\ UNCHANGED <<chain, ctx, args, attempts, obs, ret, funVars, node>>

\* rand.Int fails: performPOW returns ctx.Err() (block.go:109-112)
DrawNonceFails ==
    /\ pc = "rand"
    /\ ret' = POWReturn(block, CtxErr(ctx))
    /\ pc' = "returned"
    /\ UNCHANGED <<chain, ctx, args, block, n0, attempts, obs, funVars, node>>

\* The top of the loop: count the attempt, poll the context (block.go:119-129)
LoopPoll ==
    /\ pc = "loop"
    /\ attempts' = (attempts + 1) % UintMod
    /\ IF CtxErr(ctx) # Nil
       THEN /\ obs' = "before"
            /\ ret' = POWReturn(block, CtxErr(ctx))
            /\ pc' = "returned"
       ELSE /\ pc' = "hash"
            /\ UNCHANGED <<obs, ret>>
    /\ UNCHANGED <<chain, ctx, args, block, n0, funVars, node>>

\* A loop body that steps the nonce by two: a mutant.
LoopHashSkipsNonce ==
    /\ pc = "hash"
    /\ LET solved == isHashSolved(block.Header.Difficulty, Hash(block)) IN
       /\ pc' = CASE solved = "panic" -> "panic"
                  [] solved = "false" -> "loop"
                  [] OTHER -> "solved"
       /\ block' = IF solved = "false"
                   THEN [block EXCEPT !.Header.Nonce = (@ + 2) % UintMod]
                   ELSE block
    /\ UNCHANGED <<chain, ctx, args, n0, attempts, obs, ret, funVars, node>>

\* A loop body that also reads the clock again for every nonce: a mutant.
LoopHashRestamps ==
    /\ pc = "hash"
    /\ LET solved == isHashSolved(block.Header.Difficulty, Hash(block)) IN
       /\ pc' = CASE solved = "panic" -> "panic"
                  [] solved = "false" -> "loop"
                  [] OTHER -> "solved"
       /\ block' = IF solved = "false"
                   THEN [block EXCEPT !.Header.Nonce = (@ + 1) % UintMod,
                                      !.Header.TimeStamp = @ + 1]
                   ELSE block
    /\ UNCHANGED <<chain, ctx, args, n0, attempts, obs, ret, funVars, node>>

\* A loop body that works on the caller's last block as it is now, not on
\* the copy in the arguments: a mutant.
LoopHashLiveTip ==
    /\ pc = "hash"
    /\ LET live == [block EXCEPT
                       !.Header.Number = (chain[Len(chain)].Header.Number + 1) % UintMod,
                       !.Header.PrevBlockHash = PrevBlockHashOf(chain[Len(chain)])]
           solved == isHashSolved(live.Header.Difficulty, Hash(live))
       IN
       /\ pc' = CASE solved = "panic" -> "panic"
                  [] solved = "false" -> "loop"
                  [] OTHER -> "solved"
       /\ block' = IF solved = "false"
                   THEN [live EXCEPT !.Header.Nonce = (@ + 1) % UintMod]
                   ELSE live
    /\ UNCHANGED <<chain, ctx, args, n0, attempts, obs, ret, funVars, node>>

\* Hash the header and check it (block.go:132-136)
LoopHash ==
    /\ pc = "hash"
    /\ LET solved == isHashSolved(block.Header.Difficulty, Hash(block)) IN
       /\ pc' = CASE solved = "panic" -> "panic"
                  [] solved = "false" -> "loop"
                  [] OTHER -> "solved"
       /\ block' = IF solved = "false"
                   THEN [block EXCEPT !.Header.Nonce = (@ + 1) % UintMod]
                   ELSE block
    /\ UNCHANGED <<chain, ctx, args, n0, attempts, obs, ret, funVars, node>>

\* The poll after a solving hash, and the return (block.go:138-147)
LoopSolved ==
    /\ pc = "solved"
    /\ IF CtxErr(ctx) # Nil
       THEN /\ obs' = "after"
            /\ ret' = POWReturn(block, CtxErr(ctx))
       ELSE /\ obs' = obs
            /\ ret' = POWReturn(block, Nil)
    /\ pc' = "returned"
    /\ UNCHANGED <<chain, ctx, args, block, n0, attempts, funVars, node>>

\* The caller cancels the context of the call in progress.
Cancel ==
    /\ pc \in {"rand", "loop", "hash", "solved"}
    /\ ctx = "active"
    /\ ctx' = "canceled"
    /\ UNCHANGED <<chain, pc, args, block, n0, attempts, obs, ret, funVars, node>>

\* The caller takes POW's result: a block returned with a nil error becomes
\* the last block; the next call gets a new context.
TakeResult ==
    /\ pc = "returned"
    /\ chain' = IF ret.err = Nil THEN Append(chain, ret.block) ELSE chain
    /\ pc' = "idle"
    /\ ctx' = "active"
    /\ args' = Nil
    /\ block' = Nil
    /\ n0' = 0
    /\ attempts' = 0
    /\ obs' = "none"
    /\ ret' = Nil
    /\ UNCHANGED <<funVars, node>>

Next ==
    \/ CallPOW
    \/ DrawNonce
    \/ DrawNonceFails
    \/ LoopPoll
    \/ LoopHash
    \/ LoopSolved
    \/ Cancel
    \/ TakeResult

Spec == Init /\ [][Next]_vars

\* POW has returned a block with a nil error.
Mined == pc = "returned" /\ ret.err = Nil

\* C1: whenever POW returns a block with a nil error, at a difficulty d of
\* 1..63, the block's hash is a 66-character string whose first d hex digits
\* after "0x" are all zeros, on every path through POW and performPOW.
C1_ReturnedBlockMeetsDifficulty ==
    (Mined /\ args.Difficulty \in 1..MaxDifficulty)
        => /\ IsHexHash(Hash(ret.block))
           /\ LeadingZeros(Hash(ret.block)) >= args.Difficulty

\* C4: a cancellation observed by the loop, before hashing or after a solving
\* hash, makes POW return the context's error with the zero Block; no block,
\* nonce or header is returned with an error, and the caller's chain is as
\* it was.
C4_CancelledReturnsZeroBlock ==
    pc = "returned" =>
        /\ obs # "none" => ret.err = "context canceled"
        /\ ret.err # Nil => ret.block = ZeroBlock
        /\ chain[Len(chain)] = args.PrevBlock

\* The loop found a solving nonce, observed the cancellation at the poll
\* after it, and POW returned the zero Block.
C4_Witness ==
    /\ pc = "returned"
    /\ obs = "after"
    /\ isHashSolved(block.Header.Difficulty, Hash(block)) = "true"
    /\ block.Header.Nonce # 0
    /\ ret = [block |-> ZeroBlock, err |-> "context canceled"]

\* C5: a block B that POW produces from a previous block A has
\* B.number = A.number + 1 and B.prev_block_hash = A.Hash(), the zero hash
\* when A is genesis; so every adjacent pair of a chain built by mining on
\* the last mined block satisfies both.
C5_Adjacency ==
    /\ Mined =>
        /\ ret.block.Header.Number = args.PrevBlock.Header.Number + 1
        /\ ret.block.Header.PrevBlockHash = Hash(args.PrevBlock)
        /\ args.PrevBlock.Header.Number = 0
              => ret.block.Header.PrevBlockHash = ZeroHash
    /\ \A i \in 1..(Len(chain) - 1) :
        /\ chain[i + 1].Header.Number = chain[i].Header.Number + 1
        /\ chain[i + 1].Header.PrevBlockHash = Hash(chain[i])

\* A chain of genesis and two mined blocks, the second on a block whose hash
\* is not the zero hash.
C5_Witness ==
    /\ Len(chain) = 3
    /\ chain[1] = ZeroBlock
    /\ chain[2].Header.PrevBlockHash = ZeroHash
    /\ chain[3].Header.PrevBlockHash = SigHash(chain[2].Header)
    /\ chain[3].Header.PrevBlockHash # ZeroHash

\* C6: a block returned by POW has as trans_root the merkle root of the
\* transactions passed in args.Trans, which are the transactions of the tree
\* it stores, and carries the beneficiary, difficulty, mining reward and
\* state root of the arguments.
C6_HeaderFromArgs ==
    Mined =>
        /\ ret.block.Header.TransRoot = RootHex(NewTree(args.Trans).tree)
        /\ ret.block.Header.TransRoot = RootHex(ret.block.MerkleTree)
        /\ Values(ret.block.MerkleTree) = args.Trans
        /\ ret.block.Header.BeneficiaryID = args.BeneficiaryID
        /\ ret.block.Header.Difficulty = args.Difficulty
        /\ ret.block.Header.MiningReward = args.MiningReward
        /\ ret.block.Header.StateRoot = args.StateRoot

\* POW returned a solved block of MaxTrans transactions, mined on a block
\* that carries none.
C6_Witness ==
    /\ Mined
    /\ Len(args.Trans) = MaxTrans
    /\ args.PrevBlock.Header.Number > 0
    /\ Values(args.PrevBlock.MerkleTree) = <<>>
    /\ ret.block.Header.TransRoot # ZeroHash
    /\ isHashSolved(args.Difficulty, Hash(ret.block)) = "true"

\* C11: POW called with an empty args.Trans does not fail at the construction
\* of the merkle tree: it goes on to the search with a block whose trans_root
\* is the zero hash, and, unless the context is cancelled, the block it
\* returns has that trans_root and an empty tree.
C11_EmptyTransMines ==
    /\ (pc \in {"rand", "loop", "hash", "solved"} /\ args.Trans = <<>>) =>
        /\ block.Header.TransRoot = ZeroHash
        /\ Values(block.MerkleTree) = <<>>
    /\ (pc = "returned" /\ args.Trans = <<>>) =>
        /\ ret.err \in {Nil, "context canceled"}
        /\ ctx = "active" => ret.err = Nil
        /\ ret.err = Nil =>
            /\ ret.block.Header.TransRoot = ZeroHash
            /\ Values(ret.block.MerkleTree) = <<>>

\* POW was called with no transactions, searched, and returned a solved
\* block.
C11_Witness ==
    /\ Mined
    /\ args.Trans = <<>>
    /\ attempts > 1
    /\ isHashSolved(args.Difficulty, Hash(ret.block)) = "true"
    /\ ret.block.Header.TransRoot = ZeroHash

\* The loop of performPOW has been entered by the call that returned: the
\* draw of the first nonce succeeded.
Searched == attempts # 0 \/ block.Header.Nonce # n0

\* The header of b with nonce n solves b's difficulty.
SolvesAt(b, n) ==
    isHashSolved(b.Header.Difficulty, Hash([b EXCEPT !.Header.Nonce = n])) = "true"

\* None of the k nonces from first on (modulo the nonce's width) solves b.
NoneSolves(b, first, k) ==
    \A i \in 0..(k - 1) : ~SolvesAt(b, (first + i) % UintMod)

\* C16: the search tries n0, n0 + 1, n0 + 2, ... in the nonce's unsigned
\* arithmetic, one hash and one counted attempt per nonce: at every point of
\* the loop the nonces before the current one have failed, and the nonce of
\* a block returned by the search is the first one of the sequence that
\* solves, with attempts = (nonce - n0) + 1.
C16_FirstSolvingNonce ==
    pc \in {"loop", "hash", "solved", "returned"} =>
        LET k == (block.Header.Nonce - n0) % UintMod IN
        /\ pc = "loop" => (attempts = k /\ NoneSolves(block, n0, k))
        /\ pc \in {"hash", "solved"} =>
            (attempts = (k + 1) % UintMod /\ NoneSolves(block, n0, k))
        /\ pc = "solved" => SolvesAt(block, block.Header.Nonce)
        /\ (Mined /\ Searched) =>
            /\ ret.block.Header.Nonce = (n0 + k) % UintMod
            /\ SolvesAt(ret.block, ret.block.Header.Nonce)
            /\ NoneSolves(ret.block, n0, k)
            /\ attempts = (k + 1) % UintMod

\* The search returned a block whose nonce is past the top of the nonce's
\* range: it started at n0, wrapped to 0 and went on.
C16_Witness ==
    /\ Mined
    /\ Searched
    /\ ret.block.Header.Nonce < n0
    /\ attempts = ret.block.Header.Nonce + UintMod - n0 + 1
    /\ SolvesAt(ret.block, ret.block.Header.Nonce)

\* A step of the call in progress keeps everything but the nonce.
KeepsAllButNonce ==
    pc \in {"rand", "loop", "hash", "solved"} =>
        /\ args' = args
        /\ chain' = chain
        /\ [block' EXCEPT !.Header.Nonce = 0] = [block EXCEPT !.Header.Nonce = 0]
        /\ (pc' = "returned" /\ ret'.err = Nil) => ret'.block = block'

\* C18: between the construction of the block and POW's return, a step
\* changes nothing of the block but the header's nonce, leaves the caller's
\* arguments and chain as they were, and a block returned with a nil error
\* is the block under construction.
C18_OnlyNonceChanges == [][KeepsAllButNonce]_vars

\* POW returned a block after trying several nonces: but for the nonce it is
\* the block POW constructed from its arguments, and the arguments still
\* name the last block and the transactions they were called with.
C18_Witness ==
    /\ Mined
    /\ attempts > 2
    /\ ret.block.Header.Nonce # n0
    /\ Len(args.Trans) = MaxTrans
    /\ args.PrevBlock = chain[Len(chain)]
    /\ [ret.block EXCEPT !.Header.Nonce = 0]
         = NewBlock(args, NewTree(args.Trans).tree, ret.block.Header.TimeStamp)

\* C17: once its context is cancelled a call of POW returns the cancellation
\* error, after at most one more hash: so a call whose context is cancelled
\* is still running or has returned that error, and has not stopped in any
\* other way.
C17_CancelledCallReturns ==
    ctx = "canceled" =>
        \/ pc \in {"rand", "loop", "hash", "solved"}
        \/ (pc = "returned" /\ ret.err = "context canceled")

-----------------------------------------------------------------------------
(* SpecSolved: isHashSolved on bounded inputs.                             *)

\* Difficulties 0..MaxProbeDiff are probed one by one.
MaxProbeDiff == 20

\* A "0x" string of length n with exactly lz leading zeros (lz <= n - 3).
MkHash(n, lz) ==
    <<"0", "x">> \o
    [i \in 1..(n - 2) |->
        IF i <= lz THEN "0" ELSE IF i = lz + 1 THEN "1" ELSE HexChars[1 + (i % 16)]]

ProbeDiffs ==
    (0..MaxProbeDiff)
        \cup {MaxDifficulty - 1, MaxDifficulty, MaxDifficulty + 1, MaxDifficulty + 2,
              Uint16Mod - 3, Uint16Mod - 2, Uint16Mod - 1}

ProbeHashes ==
    {HexOf(c) : c \in 0..(Len(LZTable) - 1)}
        \cup {MkHash(HashLen, lz) : lz \in 0..(MaxProbeDiff + 1)}
        \cup {MkHash(HashLen, MaxDifficulty), ZeroHash}
        \cup {Prefix(ZeroHash, n) : n \in {0, 1, 2, 3, MatchLen - 1, MatchLen,
                                           MatchLen + 1, HashLen - 1}}
        \cup {ZeroHash \o <<"0">>, MkHash(HashLen + 1, 1), MkHash(HashLen - 1, 1)}
        \cup {<<"0", "X">> \o Zeros(HashLen - 2), <<"1", "x">> \o Zeros(HashLen - 2)}

PowIdle ==
    /\ chain = <<>>
    /\ pc = "off"
    /\ ctx = "active"
    /\ args = Nil
    /\ block = Nil
    /\ n0 = 0
    /\ attempts = 0
    /\ obs = "none"
    /\ ret = Nil
    /\ node = Nil

InitSolved ==
    /\ PowIdle
    /\ fpc = "call"
    /\ fin \in [difficulty : ProbeDiffs, hash : ProbeHashes]
    /\ fout = Nil

ApplySolved ==
    /\ fpc = "call"
    /\ fout' = isHashSolved(fin.difficulty, fin.hash)
    /\ fpc' = "done"
    /\ UNCHANGED <<fin, powVars>>

NextSolved == ApplySolved

SpecSolved == InitSolved /\ [][NextSolved]_vars


\* C2 as stated: isHashSolved returns true iff the 66-character hash has
\* EXACTLY difficulty leading zeros after "0x" (wherever the call returns).
C2_SolvedIffExactlyDifficultyZeros ==
    (/\ fpc = "done"
     /\ fin.difficulty \in 1..MaxDifficulty
     /\ IsHexHash(fin.hash)
     /\ fout # "panic")
        => (fout = "true" <=> LeadingZeros(fin.hash) = fin.difficulty)

\* C2 amended: for a difficulty of 1..17 isHashSolved returns true iff the
\* 66-character hash has AT LEAST difficulty leading zeros after "0x"; for a
\* difficulty of 18..63 the call panics on match[:difficulty+2].
C2_SolvedIffAtLeastDifficultyZeros ==
    (/\ fpc = "done"
     /\ fin.difficulty \in 1..MaxDifficulty
     /\ IsHexHash(fin.hash))
        => IF fin.difficulty <= MatchLen - 2
           THEN /\ fout \in {"true", "false"}
                /\ fout = "true" <=> LeadingZeros(fin.hash) >= fin.difficulty
           ELSE fout = "panic"

\* A hash with more leading zeros than the difficulty was reported solved.
C2_Witness ==
    /\ fpc = "done"
    /\ fin.difficulty \in 1..MaxDifficulty
    /\ IsHexHash(fin.hash)
    /\ LeadingZeros(fin.hash) > fin.difficulty
    /\ fout = "true"

\* C3: for every difficulty of 1..63 and every 66-character string,
\* isHashSolved completes and its verdict is that of the first difficulty
\* digits after "0x".
C3_CompletesOnDocumentedRange ==
    (/\ fpc = "done"
     /\ fin.difficulty \in 1..MaxDifficulty
     /\ Len(fin.hash) = HashLen)
        => /\ fout \in {"true", "false"}
           /\ fout = "true" <=>
                Prefix(fin.hash, fin.difficulty + 2)
                    = <<"0", "x">> \o Zeros(fin.difficulty)

\* C10: isHashSolved returns false for every string whose length is not 66,
\* whatever the difficulty and whatever the string holds.
C10_FalseWhenLengthNot66 ==
    (fpc = "done" /\ Len(fin.hash) # HashLen) => fout = "false"

\* A string of zeros as long as the template, at the largest difficulty the
\* template covers, was reported unsolved.
C10_Witness ==
    /\ fpc = "done"
    /\ fin.hash = Prefix(ZeroHash, MatchLen)
    /\ fin.difficulty = MatchLen - 2
    /\ fout = "false"

-----------------------------------------------------------------------------
(* SpecBlock: NewBlockData, ToBlock and Hash on bounded blocks.            *)

\* Header numbers 0..MaxNumber are probed.
MaxNumber == 2

Reverse(t) == [i \in 1..Len(t) |-> t[Len(t) + 1 - i]]

TreeOf(values) == NewTree(values).tree

ProbeHeaders ==
    [Number : 0..MaxNumber,
     PrevBlockHash : {ZeroHash, HexOf(1)},
     TimeStamp : {MaxTime},
     BeneficiaryID : Range(AccountIDs),
     Difficulty : {2},
     MiningReward : {700},
     StateRoot : {StateRoots[1]},
     TransRoot : {ZeroHash, RootHex(TreeOf(<<1>>))},
     Nonce : {0, UintMod - 1}]

ProbeBlocks ==
    {[Header |-> h, MerkleTree |-> TreeOf(t)] :
        h \in ProbeHeaders, t \in TransUpTo(MaxTrans)}

\* The blocks compared with block a: the same header over other transactions,
\* and the same transactions under a header with another nonce.
Others(a) ==
    {[Header |-> a.Header, MerkleTree |-> TreeOf(t)] :
        t \in {<<>>, <<1>>, Reverse(Values(a.MerkleTree))}}
    \cup {[a EXCEPT !.Header.Nonce = (@ + 1) % UintMod]}

\* The hash field of a BlockData that did not come from NewBlockData.
ForgedHash == HexOf(1)

InitBlock ==
    /\ PowIdle
    /\ fpc = "call"
    /\ \E a \in ProbeBlocks : \E b \in Others(a) : fin = [a |-> a, b |-> b]
    /\ fout = [data |-> Nil, back |-> Nil, forged |-> Nil,
               hashA |-> Nil, hashB |-> Nil, hashBack |-> Nil, hashForged |-> Nil]

\* bd := NewBlockData(a)
DoNewBlockData ==
    /\ fpc = "call"
    /\ fout' = [fout EXCEPT !.data = NewBlockData(fin.a)]
    /\ fpc' = "data"
    /\ UNCHANGED <<fin, powVars>>

\* ToBlock(bd), and ToBlock of b's BlockData with another hash field
DoToBlock ==
    /\ fpc = "data"
    /\ fout' = [fout EXCEPT
                  !.back = ToBlock(fout.data),
                  !.forged = ToBlock([NewBlockData(fin.b) EXCEPT !.Hash = ForgedHash])]
    /\ fpc' = "block"
    /\ UNCHANGED <<fin, powVars>>

\* Hash() of each block
DoHash ==
    /\ fpc = "block"
    /\ fout' = [fout EXCEPT
                  !.hashA = Hash(fin.a),
                  !.hashB = Hash(fin.b),
                  !.hashBack = Hash(fout.back.block),
                  !.hashForged = Hash(fout.forged.block)]
    /\ fpc' = "done"
    /\ UNCHANGED <<fin, powVars>>

NextBlock == DoNewBlockData \/ DoToBlock \/ DoHash

SpecBlock == InitBlock /\ [][NextBlock]_vars

\* C7: Hash() of a block whose number is 0 is the zero hash whatever its
\* other fields and transactions; for a number above 0 it is the hash of the
\* header.
C7_GenesisHashIsZeroHash ==
    fpc = "done" =>
        /\ \A x \in {<<fin.a, fout.hashA>>, <<fin.b, fout.hashB>>} :
               x[2] = IF x[1].Header.Number = 0 THEN ZeroHash
                      ELSE SigHash(x[1].Header)
        /\ IsHexHash(fout.hashA)

\* A block of number 0 with transactions and a header whose digest is not
\* the zero hash was hashed to the zero hash.
C7_Witness ==
    /\ fpc = "done"
    /\ fin.a.Header.Number = 0
    /\ Values(fin.a.MerkleTree) # <<>>
    /\ SigHash(fin.a.Header) # ZeroHash
    /\ fout.hashA = ZeroHash

\* C8: ToBlock(NewBlockData(b)) succeeds and yields the header, the ordered
\* transactions, the merkle root and the Hash() of b.
C8_RoundTrip ==
    fpc = "done" =>
        /\ fout.back.err = Nil
        /\ fout.back.block.Header = fin.a.Header
        /\ Values(fout.back.block.MerkleTree) = Values(fin.a.MerkleTree)
        /\ RootHex(fout.back.block.MerkleTree) = RootHex(fin.a.MerkleTree)
        /\ fout.hashBack = fout.hashA

\* A block of two different transactions went through the round trip.
C8_Witness ==
    /\ fpc = "done"
    /\ fin.a.Header.Number > 0
    /\ Len(Values(fin.a.MerkleTree)) >= 2
    /\ Values(fin.a.MerkleTree)[1] # Values(fin.a.MerkleTree)[2]
    /\ fout.back.block = fin.a

\* C9: the hash is a function of the header alone: blocks with equal headers
\* have equal Hash() whatever their transactions, a block built from a
\* BlockData hashes as its header whatever the BlockData's hash field, and
\* NewBlockData(b).Hash is b.Hash().
C9_HashOfHeaderAlone ==
    fpc = "done" =>
        /\ fin.a.Header = fin.b.Header => fout.hashA = fout.hashB
        /\ fout.hashForged = fout.hashB
        /\ fout.data.Hash = fout.hashA

\* Two blocks above genesis with one header and different merkle roots got
\* one hash, which is not the forged hash field.
C9_Witness ==
    /\ fpc = "done"
    /\ fin.a.Header.Number > 0
    /\ fin.a.Header = fin.b.Header
    /\ RootHex(fin.a.MerkleTree) # RootHex(fin.b.MerkleTree)
    /\ fout.hashA = fout.hashB
    /\ fout.hashForged # ForgedHash

-----------------------------------------------------------------------------
(* The ledger and the validation of a block against the latest block, as    *)
(* spec.md 4.5 and 4.7 describe them: the account, transaction and          *)
(* validation code of the database package is not in the sources.          *)

\* A *T of Go: no element for nil, one element for a pointer to a value.
NilPtr == <<>>

PtrTo(x) == <<x>>

\* database.ToAccountID: the well-formed addresses are those of AccountIDs.
ToAccountID(str) ==
    IF str \in Range(AccountIDs) THEN [id |-> str, err |-> Nil]
    ELSE [id |-> "", err |-> "invalid account format"]

\* database.newAccount
newAccount(id, balance) == [ID |-> id, Balance |-> balance, Nonce |-> 0]

NoAccounts == [a \in {} |-> newAccount("", 0)]

\* The account of id, a new one with no balance when the ledger has none.
AccountOf(accounts, id) ==
    IF id \in DOMAIN accounts THEN accounts[id] ELSE newAccount(id, 0)

\* db.accounts[acct.ID] = acct
Put(accounts, acct) ==
    [a \in DOMAIN accounts \cup {acct.ID} |->
        IF a = acct.ID THEN acct ELSE accounts[a]]

\* The transaction a block's value t stands for: the t-th payment of the
\* first account to the second.
TxOf(t) ==
    [FromID |-> AccountIDs[1], ToID |-> AccountIDs[2],
     Value |-> 100 * t, Tip |-> t, Nonce |-> t - 1]

\* Step 1 of apply_block for one transaction.
ApplyTransaction(accounts, beneficiary, t) ==
    LET tx == TxOf(t)
        from == AccountOf(accounts, tx.FromID)
        cost == tx.Value + tx.Tip
    IN
    IF tx.Nonce # from.Nonce \/ cost > from.Balance
    THEN [accounts |-> accounts, err |-> "InvalidBlockTx"]
    ELSE LET a1 == Put(accounts, [from EXCEPT !.Balance = @ - cost,
                                              !.Nonce = @ + 1])
             a2 == Put(a1, [AccountOf(a1, tx.ToID) EXCEPT !.Balance = @ + tx.Value])
             a3 == Put(a2, [AccountOf(a2, beneficiary) EXCEPT !.Balance = @ + tx.Tip])
         IN [accounts |-> a3, err |-> Nil]

RECURSIVE ApplyTransactions(_, _, _)
ApplyTransactions(accounts, beneficiary, trans) ==
    IF trans = <<>> THEN [accounts |-> accounts, err |-> Nil]
    ELSE LET r == ApplyTransaction(accounts, beneficiary, Head(trans)) IN
         IF r.err # Nil THEN r
         ELSE ApplyTransactions(r.accounts, beneficiary, Tail(trans))

\* apply_block: every transaction in block order, then the mining reward; all
\* of it or nothing.
ApplyBlock(accounts, b) ==
    LET r == ApplyTransactions(accounts, b.Header.BeneficiaryID, Values(b.MerkleTree)) IN
    IF r.err # Nil THEN [accounts |-> accounts, err |-> r.err]
    ELSE [accounts |->
            Put(r.accounts,
                [AccountOf(r.accounts, b.Header.BeneficiaryID)
                    EXCEPT !.Balance = @ + b.Header.MiningReward]),
          err |-> Nil]

\* Validations (a) to (d) of process_proposed_block against the latest block.
\* Transactions carry no signature here and a header's state root is a name,
\* so (e) and the state root comparison of (f) have nothing to compare.
ValidateBlock(latest, b) ==
    IF b.Header.Number <= latest.Header.Number THEN "ChainForked"
    ELSE IF b.Header.Number # latest.Header.Number + 1 THEN "InvalidBlockStructure"
    ELSE IF b.Header.PrevBlockHash # Hash(latest) THEN "ChainForked"
    ELSE IF isHashSolved(b.Header.Difficulty, Hash(b)) # "true"
    THEN "InvalidBlockStructure"
    ELSE IF b.Header.TransRoot # RootHex(b.MerkleTree) THEN "InvalidBlockStructure"
    ELSE Nil

\* The first nonce from 0 on that solves b.
SolvedNonce(b) ==
    CHOOSE n \in 0..(UintMod - 1) : SolvesAt(b, n) /\ NoneSolves(b, 0, n)

\* A solved block of configuration m and difficulty d on prev.
MinedBlock(prev, m, d) ==
    LET b == NewBlock(MineArgs(<<prev>>, m, d), NewTree(m.Trans).tree, m.Now) IN
    [b EXCEPT !.Header.Nonce = SolvedNonce(b)]

\* The chain of solved blocks of configurations ms on prev.
RECURSIVE BuildChain(_, _)
BuildChain(prev, ms) ==
    IF ms = <<>> THEN <<>>
    ELSE LET b == MinedBlock(prev, Head(ms), 1) IN
         <<b>> \o BuildChain(b, Tail(ms))

-----------------------------------------------------------------------------
(* SpecNew: database.New and state.New (part_000:123-164, part_001:67-107) *)
(* on bounded genesis balances and stored chains.                          *)

\* A stored chain holds at most MaxStored blocks.
MaxStored == 2

\* The address strings of a genesis file: the well-formed ones and one that
\* is not.
GenesisAddrs == Range(AccountIDs) \cup {"not-an-address"}

GenesisBalances ==
    UNION {[S -> {0, 1000}] : S \in SUBSET GenesisAddrs}

\* What the storage holds at boot: the block data of a chain of solved
\* blocks on genesis.
StoredChains ==
    {[i \in 1..Len(c) |-> NewBlockData(c[i])] :
        c \in {BuildChain(ZeroBlock, ms) :
                ms \in UNION {[1..n -> MineConfigs] : n \in 0..MaxStored}}}

\* mempool.NewWithStrategy: the registry holds the strategies tip and fifo.
NewWithStrategy(strategy) ==
    IF strategy \in {"tip", "fifo"}
    THEN [mempool |-> PtrTo([strategy |-> strategy, pool |-> {}]), err |-> Nil]
    ELSE [mempool |-> NilPtr, err |-> "strategy does not exist"]

\* A loop body that skips an address that is not well formed: a mutant.
RangeStepSkipsInvalid(db, accountStr, balance) ==
    LET r == ToAccountID(accountStr) IN
    IF r.err # Nil THEN [db |-> db, err |-> Nil]
    ELSE [db |-> [db EXCEPT !.accounts = Put(@, newAccount(r.id, balance))],
          err |-> Nil]

\* The body of the loop over genesis.Balances (part_000:134-140)
RangeStep(db, accountStr, balance) ==
    LET r == ToAccountID(accountStr) IN
    IF r.err # Nil THEN [db |-> db, err |-> r.err]
    ELSE [db |-> [db EXCEPT !.accounts = Put(@, newAccount(r.id, balance))],
          err |-> Nil]

\* database.New has constructed db (part_000:126-130) and is about to range
\* over the balances; state.New has built its event handler.
InitNew ==
    /\ PowIdle
    /\ fpc = "range"
    /\ \E g \in GenesisBalances : \E st \in StoredChains :
       \E sel \in {"tip", "none"} :
        /\ fin = [Genesis |-> [Balances |-> g], Storage |-> st,
                  SelectStrategy |-> sel]
        /\ fout = [db |-> [genesis |-> [Balances |-> g],
                           latestBlock |-> ZeroBlock,
                           accounts |-> NoAccounts,
                           storage |-> st],
                   todo |-> DOMAIN g,
                   ret |-> [db |-> NilPtr, err |-> Nil],
                   state |-> [state |-> NilPtr, err |-> Nil]]

\* One iteration of the range over the map, in any order (part_000:133-140)
NewRange ==
    /\ fpc = "range"
    /\ \E accountStr \in fout.todo :
        LET r == RangeStep(fout.db, accountStr, fin.Genesis.Balances[accountStr]) IN
        IF r.err # Nil
        THEN /\ fout' = [fout EXCEPT !.ret = [db |-> NilPtr, err |-> r.err]]
             /\ fpc' = "returned"
        ELSE /\ fout' = [fout EXCEPT !.db = r.db, !.todo = @ \ {accountStr}]
             /\ fpc' = "range"
    /\ UNCHANGED <<fin, powVars>>

\* The range is over: return &db, nil (part_000:163); the replay of the
\* storage in between is commented out (part_000:142-161).
NewReturn ==
    /\ fpc = "range"
    /\ fout.todo = {}
    /\ fout' = [fout EXCEPT !.ret = [db |-> PtrTo(fout.db), err |-> Nil]]
    /\ fpc' = "returned"
    /\ UNCHANGED <<fin, powVars>>

\* state.New after database.New returned (part_001:77-106)
StateNew ==
    /\ fpc = "returned"
    /\ LET mp == NewWithStrategy(fin.SelectStrategy) IN
       fout' = [fout EXCEPT !.state =
                    IF fout.ret.err # Nil THEN [state |-> NilPtr, err |-> fout.ret.err]
                    ELSE IF mp.err # Nil THEN [state |-> NilPtr, err |-> mp.err]
                    ELSE [state |-> PtrTo([genesis |-> fin.Genesis,
                                           storage |-> fin.Storage,
                                           mempool |-> mp.mempool,
                                           db |-> fout.ret.db]),
                          err |-> Nil]]
    /\ fpc' = "done"
    /\ UNCHANGED <<fin, powVars>>

NextNew == NewRange \/ NewReturn \/ StateNew

SpecNew == InitNew /\ [][NextNew]_vars

\* The ledger a genesis file of well-formed addresses describes.
GenesisAccounts(balances) ==
    [a \in DOMAIN balances |-> newAccount(a, balances[a])]

\* C12: when database.New succeeds on an empty storage, the ledger holds one
\* account per address of the genesis balances, with that balance, and the
\* latest block is genesis (number 0, hash the zero hash); whenever an
\* address of the genesis balances is not well formed, New returns an error
\* and no database, and so does state.New.
C12_GenesisLedger ==
    fpc \in {"returned", "done"} =>
        /\ (fout.ret.err = Nil /\ fin.Storage = <<>>) =>
            /\ fout.ret.db # NilPtr
            /\ DOMAIN fout.ret.db[1].accounts = DOMAIN fin.Genesis.Balances
            /\ fout.ret.db[1].accounts = GenesisAccounts(fin.Genesis.Balances)
            /\ fout.ret.db[1].latestBlock.Header.Number = 0
            /\ Hash(fout.ret.db[1].latestBlock) = ZeroHash
        /\ (\E a \in DOMAIN fin.Genesis.Balances : ToAccountID(a).err # Nil) =>
            /\ fout.ret.err # Nil
            /\ fout.ret.db = NilPtr
            /\ fpc = "done" => (fout.state.err # Nil /\ fout.state.state = NilPtr)

\* database.New succeeded on a genesis file of two addresses with different
\* balances and an empty storage, and state.New returned a State on it.
C12_Witness ==
    /\ fpc = "done"
    /\ fin.Storage = <<>>
    /\ fout.state.err = Nil
    /\ DOMAIN fout.ret.db[1].accounts = Range(AccountIDs)
    /\ fout.ret.db[1].accounts[AccountIDs[1]].Balance = 1000
    /\ fout.ret.db[1].accounts[AccountIDs[2]].Balance = 0
    /\ fout.state.state[1].db = fout.ret.db

\* The boot replay of spec.md 4.8: every stored block, in chain order, is
\* validated against the latest block and applied.
RECURSIVE Replay(_, _, _)
Replay(accounts, latest, stored) ==
    IF stored = <<>> THEN [accounts |-> accounts, latestBlock |-> latest, err |-> Nil]
    ELSE LET tb == ToBlock(Head(stored))
             v == ValidateBlock(latest, tb.block)
             ap == ApplyBlock(accounts, tb.block)
         IN
         IF tb.err # Nil
         THEN [accounts |-> accounts, latestBlock |-> latest, err |-> tb.err]
         ELSE IF v # Nil
         THEN [accounts |-> accounts, latestBlock |-> latest, err |-> v]
         ELSE IF ap.err # Nil
         THEN [accounts |-> accounts, latestBlock |-> latest, err |-> ap.err]
         ELSE Replay(ap.accounts, tb.block, Tail(stored))

\* C13: when the storage holds a valid chain of n >= 1 blocks, after
\* database.New and state.New the latest block in memory is block n and the
\* ledger is the genesis ledger with every stored block applied in order.
C13_BootRehydrates ==
    (fpc = "done" /\ fout.state.err = Nil /\ Len(fin.Storage) >= 1) =>
        LET want == Replay(GenesisAccounts(fin.Genesis.Balances), ZeroBlock,
                           fin.Storage)
        IN
        want.err = Nil =>
            /\ fout.state.state[1].db[1].latestBlock
                 = ToBlock(fin.Storage[Len(fin.Storage)]).block
            /\ fout.state.state[1].db[1].accounts = want.accounts

-----------------------------------------------------------------------------
(* SpecNode: a node that mines with POW while its ProposeBlock handler      *)
(* (v1.go:124-158) takes blocks from peers. The state package the handler   *)
(* and the miner call into is not in the sources: ProcessProposedBlock and  *)
(* the commit of a mined block follow spec.md 4.7 and 5.                    *)

\* The chain, ledger and mempool of the node.
NodeState == [chain |-> chain, accounts |-> node.accounts, mempool |-> node.mempool]

\* process_proposed_block: validate against the latest block, then apply,
\* append and purge the block's transactions from the mempool.
ProcessProposedBlock(st, b) ==
    LET v == ValidateBlock(st.chain[Len(st.chain)], b)
        ap == ApplyBlock(st.accounts, b)
    IN
    IF v # Nil THEN [st |-> st, err |-> v]
    ELSE IF ap.err # Nil THEN [st |-> st, err |-> ap.err]
    ELSE [st |-> [chain |-> Append(st.chain, b),
                  accounts |-> ap.accounts,
                  mempool |-> st.mempool \ Range(Values(b.MerkleTree))],
          err |-> Nil]

\* The commit of mine_next_block: POW's error is passed on; a block mined on
\* a block that is no longer the latest fails with StaleTip; otherwise the
\* block is applied as a proposed one is.
CommitBlock(st, r) ==
    LET latest == st.chain[Len(st.chain)] IN
    IF r.err # Nil THEN [st |-> st, err |-> "Cancelled"]
    ELSE IF \/ r.block.Header.Number # latest.Header.Number + 1
            \/ r.block.Header.PrevBlockHash # Hash(latest)
    THEN [st |-> st, err |-> "StaleTip"]
    ELSE LET ap == ApplyBlock(st.accounts, r.block) IN
         IF ap.err # Nil THEN [st |-> st, err |-> ap.err]
         ELSE [st |-> [chain |-> Append(st.chain, r.block),
                       accounts |-> ap.accounts,
                       mempool |-> st.mempool \ Range(Values(r.block.MerkleTree))],
               err |-> Nil]

\* A handler that reorganises on a fork by dropping its latest block: a
\* mutant.
ReorganizeOnFork(st, err) ==
    IF err = "ChainForked" /\ Len(st.chain) > 1
    THEN [st EXCEPT !.chain = SubSeq(@, 1, Len(@) - 1)]
    ELSE st

\* What ProposeBlock does to the node when ProcessProposedBlock returned err:
\* nothing, the call of Reorganize is commented out (v1.go:141-145).
OnProposeError(st, err) == st

\* F applied to the value of e, which is computed once.
With(e, F(_)) == CHOOSE y \in {F(x) : x \in {e}} : TRUE

\* ProposeBlock after ToBlock returned the block b (v1.go:139-157)
ProposeDecoded(st, b) ==
    With(ProcessProposedBlock(st, b),
         LAMBDA r :
            IF r.err # Nil
            THEN [st |-> OnProposeError(r.st, r.err),
                  resp |-> "block not accepted", perr |-> r.err]
            ELSE [st |-> r.st, resp |-> "accepted", perr |-> Nil])

\* ProposeBlock (v1.go:126-158): the node's state after the request, the
\* answer, and the error of ProcessProposedBlock if it was called.
ProposeBlockHandler(st, payload) ==
    IF ~payload.decodes
    THEN [st |-> st, resp |-> "unable to decode payload", perr |-> "not called"]
    ELSE With(ToBlock(payload.data),
              LAMBDA tb :
                IF tb.err # Nil
                THEN [st |-> st, resp |-> "unable to decode block",
                      perr |-> "not called"]
                ELSE ProposeDecoded(st, tb.block))

\* A nonce that does not solve b.
UnsolvedNonce(b) == CHOOSE n \in 0..(UintMod - 1) : ~SolvesAt(b, n)

\* The requests peers send to a node whose chain is c: solved blocks on its
\* latest block and on earlier ones, and on the latest block an unsolved
\* block, a block with another previous hash, a block whose transactions are
\* not those of its trans_root, and a body that is no block data.
Proposals(c) ==
    LET tip == c[Len(c)]
        good(i, m) == NewBlockData(MinedBlock(c[i], m, 1))
        onTip == MinedBlock(tip, CHOOSE m \in MineConfigs : m.Trans # <<>>, 1)
    IN
    {[decodes |-> TRUE, data |-> good(i, m)] : i \in 1..Len(c), m \in MineConfigs}
        \cup {[decodes |-> TRUE,
               data |-> NewBlockData([onTip EXCEPT !.Header.Nonce = UnsolvedNonce(onTip)])],
              [decodes |-> TRUE,
               data |-> NewBlockData([onTip EXCEPT !.Header.PrevBlockHash = ForgedHash])],
              [decodes |-> TRUE,
               data |-> [NewBlockData(onTip) EXCEPT !.Trans = <<>>]],
              [decodes |-> FALSE, data |-> NewBlockData(onTip)]}

InitNode ==
    /\ chain = <<ZeroBlock>>
    /\ pc = "idle"
    /\ ctx = "active"
    /\ args = Nil
    /\ block = Nil
    /\ n0 = 0
    /\ attempts = 0
    /\ obs = "none"
    /\ ret = Nil
    /\ node = [accounts |->
                  GenesisAccounts([a \in Range(AccountIDs) |->
                                      IF a = AccountIDs[1] THEN 1000 ELSE 0]),
               mempool |-> 1..MaxTx,
               last |-> [op |-> "none", resp |-> "", err |-> Nil]]
    /\ FunIdle

\* The transactions of the mempool in ascending order.
RECURSIVE Selected(_)
Selected(pool) ==
    IF pool = {} THEN <<>>
    ELSE LET t == CHOOSE x \in pool : \A y \in pool : x <= y IN
         <<t>> \o Selected(pool \ {t})

\* mine_next_block up to the search: under the lock, copy the latest block
\* and every transaction of the mempool into the POWArgs, then call POW.
StartMining ==
    /\ pc = "idle"
    /\ Len(chain) < MaxChain
    /\ CallPOWWith([BeneficiaryID |-> AccountIDs[1],
                    Difficulty |-> 1,
                    MiningReward |-> 700,
                    PrevBlock |-> chain[Len(chain)],
                    StateRoot |-> StateRoots[1],
                    Trans |-> Selected(node.mempool)], 1)

\* A request to ProposeBlock is served, whatever the miner is doing; the
\* chain holds MaxChain blocks at most.
ProposeBlock ==
    /\ pc # "panic"
    /\ \E payload \in Proposals(chain) :
       \E r \in {ProposeBlockHandler(NodeState, payload)} :
        /\ Len(r.st.chain) <= MaxChain
        /\ chain' = r.st.chain
        /\ node' = [accounts |-> r.st.accounts,
                    mempool |-> r.st.mempool,
                    last |-> [op |-> "propose", resp |-> r.resp, err |-> r.perr]]
    /\ UNCHANGED <<pc, ctx, args, block, n0, attempts, obs, ret, funVars>>

\* The miner commits what POW returned and goes back to idle.
CommitMined ==
    /\ pc = "returned"
    /\ \E r \in {CommitBlock(NodeState, ret)} :
       /\ chain' = r.st.chain
       /\ node' = [accounts |-> r.st.accounts,
                   mempool |-> r.st.mempool,
                   last |-> [op |-> "commit", resp |-> "", err |-> r.err]]
    /\ pc' = "idle"
    /\ ctx' = "active"
    /\ args' = Nil
    /\ block' = Nil
    /\ n0' = 0
    /\ attempts' = 0
    /\ obs' = "none"
    /\ ret' = Nil
    /\ UNCHANGED funVars

NextNode ==
    \/ StartMining
    \/ DrawNonce
    \/ DrawNonceFails
    \/ LoopPoll
    \/ LoopHash
    \/ LoopSolved
    \/ Cancel
    \/ CommitMined
    \/ ProposeBlock

SpecNode == InitNode /\ [][NextNode]_vars

\* A request to ProposeBlock that did not get "accepted" left the chain, the
\* ledger and the mempool as they were; an error of ProcessProposedBlock is
\* answered "block not accepted", and "accepted" answers no error only. The
\* steps that keep pc and ctx are those of ProposeBlock.
ProposeKeepsStateOnError ==
    (pc' = pc /\ ctx' = ctx /\ node'.last.op = "propose") =>
        /\ node'.last.err # Nil =>
            /\ chain' = chain
            /\ node'.accounts = node.accounts
            /\ node'.mempool = node.mempool
        /\ node'.last.err \notin {Nil, "not called"} =>
            node'.last.resp = "block not accepted"
        /\ node'.last.resp = "accepted" <=> node'.last.err = Nil

\* C14: when ProcessProposedBlock fails, with ChainForked or any other error,
\* the node does not reorganise and changes neither chain nor ledger nor
\* mempool, and answers "block not accepted"; it answers "accepted" only
\* when ProcessProposedBlock returned no error.
C14_NoReorgOnError == [][ProposeKeepsStateOnError]_vars

\* A peer proposed a second block 1 to a node whose chain is genesis and one
\* block or more: ChainForked, answered "block not accepted".
C14_Witness ==
    /\ Len(chain) >= 2
    /\ node.last = [op |-> "propose", resp |-> "block not accepted",
                    err |-> "ChainForked"]
    /\ node.accounts[chain[2].Header.BeneficiaryID].Balance >= 700

\* The search works on the copy of the latest block that POWArgs.PrevBlock
\* holds, whatever the chain has become.
MinesOnSnapshot ==
    pc \in {"rand", "loop", "hash", "solved"} =>
        /\ block.Header.Number = (args.PrevBlock.Header.Number + 1) % UintMod
        /\ block.Header.PrevBlockHash = PrevBlockHashOf(args.PrevBlock)
        /\ \E i \in 1..Len(chain) : chain[i].Header = args.PrevBlock.Header

\* The commit of a block mined on a block that is no longer the latest fails
\* with StaleTip and changes nothing.
StaleCommitFails ==
    (pc = "returned" /\ pc' = "idle" /\ ret.err = Nil
        /\ args.PrevBlock.Header # chain[Len(chain)].Header) =>
        /\ node'.last = [op |-> "commit", resp |-> "", err |-> "StaleTip"]
        /\ chain' = chain
        /\ node'.accounts = node.accounts
        /\ node'.mempool = node.mempool

\* C15: POW searches on the copy of the latest block taken into its
\* arguments; when a proposed block is applied while the search runs, the
\* search goes on against the copy, and the commit of the block it returns
\* fails with StaleTip, leaving chain, ledger and mempool as the proposed
\* block set them.
C15_StaleMiningFails == [](MinesOnSnapshot) /\ [][StaleCommitFails]_vars

\* The miner's commit failed with StaleTip on a chain that a proposed block
\* of transactions had extended: the ledger shows that block's payments and
\* the mempool has lost its transactions.
C15_Witness ==
    /\ pc = "idle"
    /\ node.last = [op |-> "commit", resp |-> "", err |-> "StaleTip"]
    /\ Len(chain) = 2
    /\ Values(chain[2].MerkleTree) # <<>>
    /\ node.accounts[chain[2].Header.BeneficiaryID].Balance > 700
    /\ node.mempool = (1..MaxTx) \ Range(Values(chain[2].MerkleTree))
    /\ node.mempool # 1..MaxTx

=============================================================================
